---- MODULE Spec2Model ----
(***************************************************************************)
(* A model of the wordle decision-tree solver (class wordle::solver):      *)
(* the match encoder, the constructor's input validation, the guess        *)
(* ranker, the recursive memoised search with its worker threads, and the  *)
(* extraction of per-solution guess stacks from the resulting tree.        *)
(*                                                                         *)
(* Indexes (guess_index, solution_index, match values, letter positions)   *)
(* are 0-based as in the C++ code; TLA+ sequences are 1-based, so element  *)
(* i of a vector v is v[i + 1].                                            *)
(***************************************************************************)
EXTENDS Integers, Sequences, FiniteSets, TLC

VARIABLES
    valid_guesses,    \* constructor argument: vector of words
    solutions,        \* constructor argument: vector of words
    prune_limit,      \* argument of solve(int)
    sort_ties,        \* how this build's partial_sort orders equal scores
    phase,            \* where the program is
    error,            \* the runtime_error thrown by the constructor, or "none"
    m_match_vals,     \* solver::m_match_vals (flat matrix)
    m_match_strings,  \* solver::m_match_strings (entries written so far)
    m_prune_limit,    \* solver::m_prune_limit
    m_memo,           \* solver::m_memo: solution index vector -> node*
    m_num_threads,    \* solver::m_num_threads
    heap,             \* every node block allocated by new node[num_guesses]
    threads,          \* call stack of the main thread and of every std::thread
    head,             \* results::head
    cpu,              \* the thread holding the processor (cooperative runs)
    run,              \* how many times solve(int) has been called
    prev_stacks,      \* the guess stacks of the previous solve(int) call
    freed             \* the blocks results::~results has released, in order

inputVars  == <<valid_guesses, solutions, prune_limit, sort_ties>>
matchVars  == <<m_match_vals, m_match_strings>>
searchVars == <<m_prune_limit, m_memo, m_num_threads, heap, threads, head,
                cpu, run, prev_stacks, freed>>
vars == <<valid_guesses, solutions, prune_limit, sort_ties, phase, error,
          m_match_vals, m_match_strings, m_prune_limit, m_memo,
          m_num_threads, heap, threads, head, cpu, run, prev_stacks,
          freed>>

(***************************************************************************)
(* Program constants.                                                      *)
(***************************************************************************)
NUM_WORD_LETTERS == 5
NUM_ALLOWED_GUESSES == 6

RECURSIVE raise_power(_, _)
raise_power(value, exponent) ==
    IF exponent <= 0 THEN 1 ELSE value * raise_power(value, exponent - 1)

NUM_MATCH_VALS == raise_power(3, NUM_WORD_LETTERS)
ALL_GREENS_MATCH == NUM_MATCH_VALS - 1

\* match_val_t is uint8_t
MatchValT(v) == v % 256

(***************************************************************************)
(* Bounds of the model.                                                    *)
(***************************************************************************)
\* letters of the alphabet the exhaustive match-encoder check ranges over
NumLetters == 3

Letters == <<"a", "b", "c", "d">>
Alphabet == {Letters[k] : k \in 1..NumLetters}

Positions == 0..(NUM_WORD_LETTERS - 1)

\* every word of NUM_WORD_LETTERS letters over the alphabet
AlphabetWords == [1..NUM_WORD_LETTERS -> Alphabet]

crate == <<"c", "r", "a", "t", "e">>
trace == <<"t", "r", "a", "c", "e">>
allee == <<"a", "l", "l", "e", "e">>
later == <<"l", "a", "t", "e", "r">>

(***************************************************************************)
(* Match encoder: solver::calc_match_val.                                  *)
(***************************************************************************)
\* The inner loop without its test guess[j] != solution[j].
YellowMatchAnyGreen(guess, solution, seen_solution, i) ==
    LET hits == {j \in Positions :
                    /\ ~seen_solution[j + 1]
                    /\ guess[i + 1] = solution[j + 1]}
    IN IF hits = {} THEN -1 ELSE CHOOSE j \in hits : \A k \in hits : j <= k

\* The inner loop without its test of seen_solution[j].
YellowMatchNoConsume(guess, solution, seen_solution, i) ==
    LET hits == {j \in Positions :
                    /\ guess[i + 1] = solution[j + 1]
                    /\ guess[j + 1] # solution[j + 1]}
    IN IF hits = {} THEN -1 ELSE CHOOSE j \in hits : \A k \in hits : j <= k

\* The inner loop of calc_match_val: the first position j of the solution
\* that is not yet seen, holds guess_chr and is not itself a green; -1 when
\* the loop ends without finding one.
YellowMatch(guess, solution, seen_solution, i) ==
    LET hits == {j \in Positions :
                    /\ ~seen_solution[j + 1]
                    /\ guess[i + 1] = solution[j + 1]
                    /\ guess[j + 1] # solution[j + 1]}
    IN IF hits = {} THEN -1 ELSE CHOOSE j \in hits : \A k \in hits : j <= k

\* The iteration with the codes of green and yellow exchanged.
CalcStepSwappedCodes(guess, solution, st, i) ==
    IF guess[i + 1] = solution[i + 1]
    THEN [match_val     |-> st.match_val + st.mult,
          mult          |-> st.mult * 3,
          seen_solution |-> [st.seen_solution EXCEPT ![i + 1] = TRUE],
          match_string  |-> [st.match_string EXCEPT ![i + 1] = "G"]]
    ELSE LET j == YellowMatch(guess, solution, st.seen_solution, i)
         IN IF j = -1
            THEN [st EXCEPT !.mult = st.mult * 3]
            ELSE [match_val     |-> st.match_val + 2 * st.mult,
                  mult          |-> st.mult * 3,
                  seen_solution |-> [st.seen_solution EXCEPT ![j + 1] = TRUE],
                  match_string  |-> [st.match_string EXCEPT ![i + 1] = "y"]]

\* One iteration of the outer loop, for position i. st holds the locals
\* match_val, mult, seen_solution and match_string.
CalcStep(guess, solution, st, i) ==
    IF guess[i + 1] = solution[i + 1]
    THEN [match_val     |-> st.match_val + 2 * st.mult,
          mult          |-> st.mult * 3,
          seen_solution |-> [st.seen_solution EXCEPT ![i + 1] = TRUE],
          match_string  |-> [st.match_string EXCEPT ![i + 1] = "G"]]
    ELSE LET j == YellowMatch(guess, solution, st.seen_solution, i)
         IN IF j = -1
            THEN [st EXCEPT !.mult = st.mult * 3]
            ELSE [match_val     |-> st.match_val + st.mult,
                  mult          |-> st.mult * 3,
                  seen_solution |-> [st.seen_solution EXCEPT ![j + 1] = TRUE],
                  match_string  |-> [st.match_string EXCEPT ![i + 1] = "y"]]

RECURSIVE CalcLoop(_, _, _, _)
CalcLoop(guess, solution, st, i) ==
    IF i >= NUM_WORD_LETTERS THEN st
    ELSE CalcLoop(guess, solution, CalcStep(guess, solution, st, i), i + 1)

\* The locals of calc_match_val when its loop has ended.
CalcLocals(guess, solution) ==
    CalcLoop(guess, solution,
             [match_val     |-> 0,
              mult          |-> 1,
              seen_solution |-> [k \in 1..NUM_WORD_LETTERS |-> FALSE],
              match_string  |-> [k \in 1..NUM_WORD_LETTERS |-> "."]],
             0)

\* The value calc_match_val returns.
calc_match_val(guess, solution) ==
    MatchValT(CalcLocals(guess, solution).match_val)

\* m_match_strings after calc_match_val(guess, solution) has run on it.
WriteMatchString(strings, guess, solution) ==
    LET st == CalcLocals(guess, solution)
    IN [v \in DOMAIN strings \cup {st.match_val} |->
           IF v = st.match_val THEN st.match_string ELSE strings[v]]


\* solver::init_match_vals, the strings: m_match_strings after the first k
\* (guess, solution) pairs of the double loop have been encoded. The entry
\* of a match value is the string the last pair with that value has written.
InitMatchStrings(guesses, sols, k) ==
    LET PairLocals(index) ==
            CalcLocals(guesses[((index - 1) \div Len(sols)) + 1],
                       sols[((index - 1) % Len(sols)) + 1])
        locals == [index \in 1..k |-> PairLocals(index)]
        LastWriter(v) ==
            CHOOSE index \in 1..k :
                /\ locals[index].match_val = v
                /\ \A later_index \in (index + 1)..k :
                       locals[later_index].match_val # v
    IN [v \in {locals[index].match_val : index \in 1..k} |->
           locals[LastWriter(v)].match_string]

\* solver::init_match_vals, the matrix: entry i * m_num_solutions + j holds
\* calc_match_val(valid_guesses[i], solutions[j]).
init_match_vals(guesses, sols) ==
    [index \in 1..(Len(guesses) * Len(sols)) |->
        LET i == (index - 1) \div Len(sols)
            j == (index - 1) % Len(sols)
        IN calc_match_val(guesses[i + 1], sols[j + 1])]

\* solver::lookup_match on a given matrix with num_solutions columns.
LookupIn(match_vals, num_solutions, guess_index, solution_index) ==
    match_vals[guess_index * num_solutions + solution_index + 1]

m_num_valid_guesses == Len(valid_guesses)
m_num_solutions == Len(solutions)

lookup_match(guess_index, solution_index) ==
    LookupIn(m_match_vals, m_num_solutions, guess_index, solution_index)

(***************************************************************************)
(* Constructor: solver::check_guesses_solutions.                           *)
(***************************************************************************)
Range(seq) == {seq[k] : k \in 1..Len(seq)}

\* The first solution, in order, that makes the first loop throw: 0 if none.
FirstBadSolution(guesses, sols) ==
    LET bad == {k \in 1..Len(sols) :
                   \/ Len(sols[k]) # NUM_WORD_LETTERS
                   \/ sols[k] \notin Range(guesses)}
    IN IF bad = {} THEN 0 ELSE CHOOSE k \in bad : \A l \in bad : k <= l

\* check_guesses_solutions without its test of solutions.empty().
check_guesses_solutions_no_empty_solutions(guesses, sols) ==
    IF guesses = <<>> THEN "Empty guesses"
    ELSE IF FirstBadSolution(guesses, sols) # 0
    THEN IF Len(sols[FirstBadSolution(guesses, sols)]) # NUM_WORD_LETTERS
         THEN "Solution length"
         ELSE "Guess set does not contain solution"
    ELSE IF \E k \in 1..Len(guesses) : Len(guesses[k]) # NUM_WORD_LETTERS
    THEN "Guess length"
    ELSE "none"

\* What check_guesses_solutions throws, "none" when it returns normally.
check_guesses_solutions(guesses, sols) ==
    IF guesses = <<>> THEN "Empty guesses"
    ELSE IF sols = <<>> THEN "Empty solutions"
    ELSE IF FirstBadSolution(guesses, sols) # 0
    THEN IF Len(sols[FirstBadSolution(guesses, sols)]) # NUM_WORD_LETTERS
         THEN "Solution length"
         ELSE "Guess set does not contain solution"
    ELSE IF \E k \in 1..Len(guesses) : Len(guesses[k]) # NUM_WORD_LETTERS
    THEN "Guess length"
    ELSE "none"

\* The member initialisers of solver::solver: a zeroed matrix and
\* NUM_MATCH_VALS empty strings (no entry written).
ZeroMatchVals(guesses, sols) ==
    [index \in 1..(Len(guesses) * Len(sols)) |-> 0]

(***************************************************************************)
(* State before anything has run.                                          *)
(***************************************************************************)
\* nullptr
NULL == <<>>

SearchIdle ==
    /\ m_prune_limit = 0
    /\ m_memo = <<>>
    /\ m_num_threads = 0
    /\ heap = <<>>
    /\ threads = <<>>
    /\ head = NULL
    /\ cpu = <<>>
    /\ run = 0
    /\ prev_stacks = <<>>
    /\ freed = <<>>

(***************************************************************************)
(* The match encoder on its own: one calc_match_val call on an arbitrary   *)
(* (guess, solution) pair.                                                 *)
(***************************************************************************)
EncoderPairs ==
    (AlphabetWords \X AlphabetWords) \cup {<<crate, trace>>, <<allee, later>>}

InitMatch ==
    /\ \E pair \in EncoderPairs :
          /\ valid_guesses = <<pair[1]>>
          /\ solutions = <<pair[2]>>
    /\ prune_limit = 0
    /\ sort_ties = "asc"
    /\ phase = "encode"
    /\ error = "none"
    /\ m_match_vals = ZeroMatchVals(valid_guesses, solutions)
    /\ m_match_strings = <<>>
    /\ SearchIdle

\* m_match_vals[0] = calc_match_val(valid_guesses[0], solutions[0])
CalcMatchVal ==
    /\ phase = "encode"
    /\ phase' = "encoded"
    /\ m_match_vals' = [m_match_vals EXCEPT
                           ![1] = calc_match_val(valid_guesses[1], solutions[1])]
    /\ m_match_strings' =
           WriteMatchString(m_match_strings, valid_guesses[1], solutions[1])
    /\ UNCHANGED <<inputVars, error, searchVars>>

NextMatch == CalcMatchVal

SpecMatch == InitMatch /\ [][NextMatch]_vars

(***************************************************************************)
(* The constructor on arbitrary word lists.                                *)
(***************************************************************************)
\* longest word list handed to the constructor
MaxListLen == 2

CtorWords ==
    { <<"a", "a", "a", "a", "a">>,
      <<"a", "a", "b", "b", "a">>,
      <<"b", "a", "a", "a", "b">>,
      <<"a", "b", "a", "b">>,
      <<"a", "a", "a", "a", "a", "a">> }

CtorLists == UNION {[1..n -> CtorWords] : n \in 0..MaxListLen}

InitCtor ==
    /\ valid_guesses \in CtorLists
    /\ solutions \in CtorLists
    /\ prune_limit = 0
    /\ sort_ties = "asc"
    /\ phase = "new"
    /\ error = "none"
    /\ m_match_vals = ZeroMatchVals(valid_guesses, solutions)
    /\ m_match_strings = <<>>
    /\ SearchIdle

\* solver::solver: check_guesses_solutions, then init_match_vals unless the
\* check has thrown.
Construct ==
    /\ phase = "new"
    /\ LET thrown == check_guesses_solutions(valid_guesses, solutions)
       IN IF thrown = "none"
          THEN /\ phase' = "constructed"
               /\ error' = error
               /\ m_match_vals' = init_match_vals(valid_guesses, solutions)
               /\ m_match_strings' =
                      InitMatchStrings(valid_guesses, solutions,
                                       Len(valid_guesses) * Len(solutions))
          ELSE /\ phase' = "failed"
               /\ error' = thrown
               /\ UNCHANGED matchVars
    /\ UNCHANGED <<inputVars, searchVars>>

NextCtor == Construct

SpecCtor == InitCtor /\ [][NextCtor]_vars

(***************************************************************************)
(* Decision tree nodes and the heap of node blocks.                        *)
(***************************************************************************)
\* A value-initialised solver::node. The fields stopped and skipped are not
\* fields of the C++ struct and no action reads them: stopped records that
\* traverse_matches left its loop on this node through the break, skipped
\* that match values with solutions were still to come when it did.
NewNode ==
    [guess_index  |-> 0,
     total_depth  |-> 0,
     solved_count |-> 0,
     min_depth    |-> 0,
     is_leaf      |-> FALSE,
     children     |-> <<>>,
     leaves       |-> <<>>,
     stopped      |-> FALSE,
     skipped      |-> FALSE]

\* A node* is the name of a block of the heap and points at its slot 0;
\* &subtrees[i] is the pair <<block, i>>. new node[n] names the block after
\* the call that allocates it, so that a name is never given twice.
NodeAt(hp, addr) == hp[addr[1]][addr[2] + 1]
SetNode(hp, addr, node) == [hp EXCEPT ![addr[1]][addr[2] + 1] = node]

Min(x, y) == IF x <= y THEN x ELSE y
Max(x, y) == IF x >= y THEN x ELSE y

\* Scores and average depths are quotients of small integers; <<n, d>>
\* stands for the double n / d (d > 0), compared exactly.
FracLess(x, y) == x[1] * y[2] < y[1] * x[2]

\* node::average_num_guesses
average_num_guesses(node) ==
    IF node.solved_count = 0 THEN <<0, 1>>
    ELSE <<node.total_depth, node.solved_count>>

\* within_depth as a test of the depth alone.
within_depth_always(depth, node) == depth + 0 <= NUM_ALLOWED_GUESSES

\* the lambda within_depth of solver::solve
within_depth(depth, node) == depth + node.min_depth <= NUM_ALLOWED_GUESSES

(***************************************************************************)
(* Guess ranker.                                                           *)
(***************************************************************************)
\* solver::avg_solutions_per_unique_match
avg_solutions_per_unique_match(solution_indexes, guess_index) ==
    LET seen == {lookup_match(guess_index, solution_indexes[k]) :
                    k \in 1..Len(solution_indexes)}
        num_unique_matches == Cardinality(seen)
        num_solutions == IF ALL_GREENS_MATCH \in seen
                         THEN Len(solution_indexes) - 1
                         ELSE Len(solution_indexes)
    IN <<num_solutions, num_unique_matches>>

\* std::ranges::partial_sort compares the scores alone, and the standard
\* leaves the order of equal scores open; a build fixes it.  sort_ties says
\* which order this build produces: "libstdc++" is the heap selection of
\* GCC's library, "asc" and "desc" are builds that keep equal scores in
\* rising and in falling guess order.
ScoreLess(p, q) == FracLess(p[1], q[1])

SortsBefore(p, q) ==
    \/ ScoreLess(p, q)
    \/ /\ ~ScoreLess(q, p)
       /\ IF sort_ties = "asc" THEN p[2] < q[2] ELSE p[2] > q[2]

RECURSIVE SelectionSort(_, _)
SelectionSort(pairs, middle) ==
    IF middle = 0 \/ pairs = {} THEN <<>>
    ELSE LET first == CHOOSE p \in pairs :
                          \A q \in pairs \ {p} : SortsBefore(p, q)
         IN <<first>> \o SelectionSort(pairs \ {first}, middle - 1)

\* libstdc++'s heap primitives on an array a indexed from 0.
\* std::__push_heap
RECURSIVE push_heap(_, _, _, _)
push_heap(a, hole, top, value) ==
    IF hole > top
    THEN LET parent == (hole - 1) \div 2
         IN IF ScoreLess(a[parent], value)
            THEN push_heap([a EXCEPT ![hole] = a[parent]], parent, top, value)
            ELSE [a EXCEPT ![hole] = value]
    ELSE [a EXCEPT ![hole] = value]

\* The descent of std::__adjust_heap: the hole moves to the larger child;
\* the result is the array and the place the hole ends at.
RECURSIVE adjust_heap_descend(_, _, _)
adjust_heap_descend(a, hole, len) ==
    IF hole < (len - 1) \div 2
    THEN LET second == 2 * (hole + 1)
             child  == IF ScoreLess(a[second], a[second - 1])
                       THEN second - 1 ELSE second
         IN adjust_heap_descend([a EXCEPT ![hole] = a[child]], child, len)
    ELSE IF len % 2 = 0 /\ hole = (len - 2) \div 2
         THEN LET only == 2 * (hole + 1) - 1
              IN <<[a EXCEPT ![hole] = a[only]], only>>
         ELSE <<a, hole>>

\* std::__adjust_heap
adjust_heap(a, hole, len, value) ==
    LET down == adjust_heap_descend(a, hole, len)
    IN push_heap(down[1], down[2], hole, value)

\* std::__make_heap, from the parent given down to 0
RECURSIVE make_heap_from(_, _, _)
make_heap_from(a, parent, len) ==
    LET b == adjust_heap(a, parent, len, a[parent])
    IN IF parent = 0 THEN b ELSE make_heap_from(b, parent - 1, len)

make_heap(a, len) ==
    IF len < 2 THEN a ELSE make_heap_from(a, (len - 2) \div 2, len)

\* std::pop_heap on the first len elements
pop_heap(a, len) ==
    IF len > 1
    THEN adjust_heap([a EXCEPT ![len - 1] = a[0]], 0, len - 1, a[len - 1])
    ELSE a

\* The loop of partial_sort over the elements from middle on: an element
\* smaller than the heap's top takes the place of the top.
RECURSIVE heap_select(_, _, _, _)
heap_select(a, middle, i, last) ==
    IF i = last THEN a
    ELSE IF ScoreLess(a[i], a[0])
         THEN LET popped  == pop_heap(a, middle)
                  swapped == [popped EXCEPT ![middle - 1] = popped[i],
                                            ![i] = popped[middle - 1]]
              IN heap_select(push_heap(swapped, middle - 1, 0,
                                       swapped[middle - 1]),
                             middle, i + 1, last)
         ELSE heap_select(a, middle, i + 1, last)

\* std::sort_heap on the first len elements
RECURSIVE sort_heap(_, _)
sort_heap(a, len) ==
    IF len > 1 THEN sort_heap(pop_heap(a, len), len - 1) ELSE a

HeapSort(ret, middle) ==
    LET a      == [k \in 0..(Len(ret) - 1) |-> ret[k + 1]]
        sorted == sort_heap(heap_select(make_heap(a, middle), middle,
                                        middle, Len(ret)),
                            middle)
    IN [k \in 1..middle |-> sorted[k - 1]]

\* The first middle elements after std::ranges::partial_sort(ret, middle).
\* partial_sort as a call that leaves the range as it is.
partial_sort_leaves_order(ret, middle) == ret

partial_sort(ret, middle) ==
    IF sort_ties = "libstdc++"
    THEN HeapSort(ret, middle)
    ELSE SelectionSort({ret[k] : k \in 1..Len(ret)}, middle)

\* solver::get_best_unique_match_guesses with a given prune limit.
BestGuesses(solution_indexes, limit) ==
    LET avgs == [g \in 0..(m_num_valid_guesses - 1) |->
                    avg_solutions_per_unique_match(solution_indexes, g)]
        below_one == {g \in DOMAIN avgs : FracLess(avgs[g], <<1, 1>>)}
    IN IF below_one # {}
       THEN LET g == CHOOSE g \in below_one : \A h \in below_one : g <= h
            IN << <<avgs[g], g>> >>
       ELSE SubSeq(partial_sort([k \in 1..m_num_valid_guesses |->
                                    <<avgs[k - 1], k - 1>>],
                                limit + 1),
                   1, limit)

get_best_unique_match_guesses(solution_indexes) ==
    BestGuesses(solution_indexes, m_prune_limit)

(***************************************************************************)
(* Partition of the feasible solutions by match value.                     *)
(***************************************************************************)
\* solver::get_solutions_by_match, the entry for one match value
SolutionsByMatch(guess_index, solution_indexes, match) ==
    SelectSeq(solution_indexes,
              LAMBDA s : lookup_match(guess_index, s) = match)

\* the match values from match on whose entry is not empty
NonEmptyFrom(guess_index, solution_indexes, match) ==
    {lookup_match(guess_index, solution_indexes[k]) :
        k \in 1..Len(solution_indexes)} \cap match..(NUM_MATCH_VALS - 1)

SetMin(S) == CHOOSE x \in S : \A y \in S : x <= y

\* mark_solved without the second total_depth++ of a leaves entry.
mark_solved_leaf_counts_one(node, guess_index, solution_index) ==
    IF lookup_match(guess_index, solution_index) = ALL_GREENS_MATCH
    THEN [node EXCEPT !.solved_count = @ + 1,
                      !.total_depth = @ + 1,
                      !.is_leaf = TRUE,
                      !.min_depth = Max(@, 1)]
    ELSE [node EXCEPT !.solved_count = @ + 1,
                      !.total_depth = @ + 1,
                      !.leaves = Append(@, solution_index),
                      !.min_depth = Max(@, 2)]

\* mark_solved without subtree.solved_count++.
mark_solved_no_count(node, guess_index, solution_index) ==
    IF lookup_match(guess_index, solution_index) = ALL_GREENS_MATCH
    THEN [node EXCEPT !.total_depth = @ + 1,
                      !.is_leaf = TRUE,
                      !.min_depth = Max(@, 1)]
    ELSE [node EXCEPT !.total_depth = @ + 2,
                      !.leaves = Append(@, solution_index),
                      !.min_depth = Max(@, 2)]

\* solver::mark_solved
mark_solved(node, guess_index, solution_index) ==
    IF lookup_match(guess_index, solution_index) = ALL_GREENS_MATCH
    THEN [node EXCEPT !.solved_count = @ + 1,
                      !.total_depth = @ + 1,
                      !.is_leaf = TRUE,
                      !.min_depth = Max(@, 1)]
    ELSE [node EXCEPT !.solved_count = @ + 1,
                      !.total_depth = @ + 2,
                      !.leaves = Append(@, solution_index),
                      !.min_depth = Max(@, 2)]

\* The updates without subtree.solved_count += child->solved_count.
AddChildForgetsCount(node, child_ptr, child) ==
    [node EXCEPT !.children = Append(@, child_ptr),
                 !.total_depth = @ + child.solved_count + child.total_depth,
                 !.min_depth = Min(@, child.min_depth + 1)]

\* The updates with total_depth raised by child->total_depth alone.
AddChildNoExtraDepth(node, child_ptr, child) ==
    [node EXCEPT !.children = Append(@, child_ptr),
                 !.solved_count = @ + child.solved_count,
                 !.total_depth = @ + child.total_depth,
                 !.min_depth = Min(@, child.min_depth + 1)]

\* solver::traverse_match from after the recursive solve call: the updates
\* of the subtree for the child that call returned.
AddChild(node, child_ptr, child) ==
    [node EXCEPT !.children = Append(@, child_ptr),
                 !.solved_count = @ + child.solved_count,
                 !.total_depth = @ + child.solved_count + child.total_depth,
                 !.min_depth = Min(@, child.min_depth + 1)]

(***************************************************************************)
(* Threads. A thread is the stack of the calls it is in; a worker is named *)
(* after the candidate it works on and is finished when its stack is empty.*)
(***************************************************************************)
\* the number of online processors sysconf reports
OnlineProcessors == 1

\* m_max_threads as the constructor sets it
m_max_threads == OnlineProcessors * 2

\* A call of solve(solution_indexes, depth) at its entry.
SolveFrame(solution_indexes, depth) ==
    [fn               |-> "solve",
     pc               |-> "enter",
     solution_indexes |-> solution_indexes,
     depth            |-> depth,
     best_guesses     |-> <<>>,
     subtrees         |-> NULL,
     i                |-> 0,
     workers          |-> <<>>,
     joined           |-> 0,
     subtree          |-> <<NULL, 0>>,
     guess_index      |-> 0,
     match            |-> 0]

\* A call of traverse_matches(subtree, guess_index, solution_indexes, depth)
\* at the head of its loop.
TraverseFrame(subtree, guess_index, solution_indexes, depth) ==
    [fn               |-> "traverse_matches",
     pc               |-> "loop",
     solution_indexes |-> solution_indexes,
     depth            |-> depth,
     best_guesses     |-> <<>>,
     subtrees         |-> NULL,
     i                |-> 0,
     workers          |-> <<>>,
     joined           |-> 0,
     subtree          |-> subtree,
     guess_index      |-> guess_index,
     match            |-> 0]

\* the thread that calls solver::solve(int) and the worker that solve
\* starts for the candidate at subtree
MainThread == <<>>
Worker(subtree) == Append(subtree[1], subtree[2])

\* the name of the block the solve call on top of stack allocates
NewBlock(stack) ==
    IF Len(stack) = 1 THEN <<0>>
    ELSE LET caller == stack[Len(stack) - 1]
         IN caller.subtree[1] \o <<caller.subtree[2], caller.match>>

Top(stack) == stack[Len(stack)]
Pop(stack) == SubSeq(stack, 1, Len(stack) - 1)
SetTop(stack, frame) == [stack EXCEPT ![Len(stack)] = frame]

\* solve's candidate loop after candidate i has been dealt with
NextCandidate(frame) ==
    [frame EXCEPT !.i = @ + 1,
                  !.pc = IF frame.i + 1 < Len(frame.best_guesses)
                         THEN "loop" ELSE "join"]

\* traverse_matches returns: into the candidate loop of the solve call that
\* ran it inline, or out of the worker thread.
TraverseReturn(stack) ==
    IF Len(stack) = 1 THEN <<>>
    ELSE SetTop(Pop(stack), NextCandidate(stack[Len(stack) - 1]))

\* traverse_matches after the entry of match value match has been dealt
\* with without a break: on to the next match value, or return.
TraverseContinue(stack, match) ==
    LET frame == Top(stack)
    IN IF NonEmptyFrom(frame.guess_index, frame.solution_indexes,
                       match + 1) = {}
       THEN TraverseReturn(stack)
       ELSE SetTop(stack, [frame EXCEPT !.pc = "loop", !.match = match + 1])

\* solve(solution_indexes, depth) returns ret to traverse_match, whose
\* rest runs, and then traverse_matches goes on or breaks. stack is the
\* stack below the returning call.
SolveReturn(stack, hp, ret) ==
    LET frame == Top(stack)
        node  == AddChild(NodeAt(hp, frame.subtree), ret, hp[ret][1])
    IN IF frame.depth + node.min_depth <= NUM_ALLOWED_GUESSES
       THEN [stack |-> TraverseContinue(stack, frame.match),
             heap  |-> SetNode(hp, frame.subtree, node)]
       ELSE [stack |-> TraverseReturn(stack),
             heap  |-> SetNode(hp, frame.subtree,
                               [node EXCEPT
                                   !.stopped = TRUE,
                                   !.skipped =
                                       NonEmptyFrom(frame.guess_index,
                                                    frame.solution_indexes,
                                                    frame.match + 1) # {}])]

\* solver::lookup_memo: m_memo.find(key) under m_memo_mutex
lookup_memo(solution_indexes) ==
    IF solution_indexes \in DOMAIN m_memo THEN m_memo[solution_indexes]
    ELSE NULL

\* set_memo as an insertion that leaves an entry already there alone.
set_memo_keeps_first(memo, solution_indexes, subtree) ==
    [key \in DOMAIN memo \cup {solution_indexes} |->
        IF key \in DOMAIN memo THEN memo[key] ELSE subtree]

\* solver::set_memo: m_memo[key] = val under m_memo_mutex
set_memo(memo, solution_indexes, subtree) ==
    [key \in DOMAIN memo \cup {solution_indexes} |->
        IF key = solution_indexes THEN subtree ELSE memo[key]]

\* The choice among the candidates with the last of several least averages
\* as best.
BestSlotLastMinimum(block, depth) ==
    LET filtered == {k \in 1..Len(block) : within_depth(depth, block[k])}
    IN IF filtered = {} THEN 1
       ELSE CHOOSE k \in filtered :
                /\ \A j \in filtered :
                       ~FracLess(average_num_guesses(block[j]),
                                 average_num_guesses(block[k]))
                /\ \A j \in filtered :
                       j > k => FracLess(average_num_guesses(block[k]),
                                         average_num_guesses(block[j]))

\* get_range_min over the candidates of block not pruned by depth,
\* falling back to candidate 0; the result is the slot of best.
BestSlot(block, depth) ==
    LET filtered == {k \in 1..Len(block) : within_depth(depth, block[k])}
    IN IF filtered = {} THEN 1
       ELSE CHOOSE k \in filtered :
                /\ \A j \in filtered :
                       ~FracLess(average_num_guesses(block[j]),
                                 average_num_guesses(block[k]))
                /\ \A j \in filtered :
                       j < k => FracLess(average_num_guesses(block[k]),
                                         average_num_guesses(block[j]))

\* std::swap(*best, subtrees[0])
SwapToFront(block, k) == [block EXCEPT ![1] = block[k], ![k] = block[1]]

(***************************************************************************)
(* The search: solve, traverse_matches and traverse_match, one step of one *)
(* thread at a time.                                                       *)
(***************************************************************************)
\* std::iota(solution_indexes.begin(), solution_indexes.end(), 0)
AllSolutionIndexes == [k \in 1..m_num_solutions |-> k - 1]

\* results solver::solve(int prune_limit) up to the call of the recursive
\* solve on all solution indexes at depth 0.
Solve ==
    /\ phase = "constructed"
    /\ prune_limit >= 0
    /\ m_prune_limit' = Min(prune_limit, m_num_valid_guesses - 1)
    /\ m_memo' = [key \in {} |-> NULL]
    /\ threads' = [t \in {MainThread} |->
                       <<SolveFrame(AllSolutionIndexes, 0)>>]
    /\ phase' = "solving"
    /\ run' = run + 1
    /\ UNCHANGED <<inputVars, error, matchVars, m_num_threads, heap, head,
                   cpu, prev_stacks, freed>>

Running(t) ==
    /\ phase = "solving"
    /\ t \in DOMAIN threads
    /\ threads[t] # <<>>

\* A solve call of thread t returns ret; below is the stack under the call.
\* The outermost call hands the tree to results; any other call returns
\* into traverse_match.
Return(t, below, hp, ret) ==
    IF below = <<>>
    THEN /\ threads' = [threads EXCEPT ![t] = <<>>]
         /\ heap' = hp
         /\ head' = ret
         /\ phase' = "done"
    ELSE LET r == SolveReturn(below, hp, ret)
         IN /\ threads' = [threads EXCEPT ![t] = r.stack]
            /\ heap' = r.heap
            /\ UNCHANGED <<head, phase>>

\* solve: the memo holds a tree for these solutions that is within depth.
SolveCached(t) ==
    /\ Running(t)
    /\ LET frame  == Top(threads[t])
           cached == lookup_memo(frame.solution_indexes)
       IN /\ frame.fn = "solve" /\ frame.pc = "enter"
          /\ cached # NULL
          /\ within_depth(frame.depth, heap[cached][1])
          /\ Return(t, Pop(threads[t]), heap, cached)
    /\ UNCHANGED <<inputVars, error, matchVars, m_prune_limit, m_memo,
                   m_num_threads, run, prev_stacks,
                   freed>>

\* solve: no usable memo entry; rank the guesses and allocate the nodes.
SolveExpand(t) ==
    /\ Running(t)
    /\ LET frame  == Top(threads[t])
           cached == lookup_memo(frame.solution_indexes)
           best_guesses ==
               get_best_unique_match_guesses(frame.solution_indexes)
           num_guesses == Len(best_guesses)
       IN /\ frame.fn = "solve" /\ frame.pc = "enter"
          /\ ~(cached # NULL /\ within_depth(frame.depth, heap[cached][1]))
          /\ heap' = [b \in DOMAIN heap \cup {NewBlock(threads[t])} |->
                          IF b = NewBlock(threads[t])
                          THEN [k \in 1..num_guesses |-> NewNode]
                          ELSE heap[b]]
          /\ threads' = [threads EXCEPT ![t] =
                 SetTop(@, [frame EXCEPT
                     !.best_guesses = best_guesses,
                     !.subtrees = NewBlock(threads[t]),
                     !.i = 0,
                     !.pc = IF num_guesses > 0 THEN "loop" ELSE "join"])]
    /\ UNCHANGED <<inputVars, phase, error, matchVars, m_prune_limit, m_memo,
                   m_num_threads, head, run, prev_stacks,
                   freed>>

\* solve, candidate i: the work is done by the calling thread.
SolveRunInline(t) ==
    /\ Running(t)
    /\ LET frame       == Top(threads[t])
           guess_index == frame.best_guesses[frame.i + 1][2]
           subtree     == <<frame.subtrees, frame.i>>
       IN /\ frame.fn = "solve" /\ frame.pc = "loop"
          /\ m_num_threads >= m_max_threads \/ Len(frame.best_guesses) = 1
          /\ heap' = SetNode(heap, subtree,
                 [NodeAt(heap, subtree) EXCEPT !.guess_index = guess_index])
          /\ threads' = [threads EXCEPT ![t] =
                 Append(SetTop(@, [frame EXCEPT !.pc = "call"]),
                        TraverseFrame(subtree, guess_index,
                                      frame.solution_indexes, frame.depth))]
    /\ UNCHANGED <<inputVars, phase, error, matchVars, m_prune_limit, m_memo,
                   m_num_threads, head, run, prev_stacks,
                   freed>>

\* solve, candidate i: the work is laid off to a new worker thread.
SolveSpawn(t) ==
    /\ Running(t)
    /\ LET frame       == Top(threads[t])
           guess_index == frame.best_guesses[frame.i + 1][2]
           subtree     == <<frame.subtrees, frame.i>>
       IN /\ frame.fn = "solve" /\ frame.pc = "loop"
          /\ ~(m_num_threads >= m_max_threads \/ Len(frame.best_guesses) = 1)
          /\ heap' = SetNode(heap, subtree,
                 [NodeAt(heap, subtree) EXCEPT !.guess_index = guess_index])
          /\ threads' = [w \in DOMAIN threads \cup {Worker(subtree)} |->
                 IF w = Worker(subtree)
                 THEN <<TraverseFrame(subtree, guess_index,
                                      frame.solution_indexes, frame.depth)>>
                 ELSE IF w = t
                 THEN SetTop(threads[t], [frame EXCEPT
                          !.pc = "spawned",
                          !.workers = Append(@, Worker(subtree))])
                 ELSE threads[w]]
    /\ UNCHANGED <<inputVars, phase, error, matchVars, m_prune_limit, m_memo,
                   m_num_threads, head, run, prev_stacks,
                   freed>>

\* solve: m_num_threads++ after the worker has been started.
SolveCount(t) ==
    /\ Running(t)
    /\ LET frame == Top(threads[t])
       IN /\ frame.fn = "solve" /\ frame.pc = "spawned"
          /\ threads' = [threads EXCEPT ![t] = SetTop(@, NextCandidate(frame))]
    /\ m_num_threads' = m_num_threads + 1
    /\ UNCHANGED <<inputVars, phase, error, matchVars, m_prune_limit, m_memo,
                   heap, head, run, prev_stacks,
                   freed>>

\* solve: thr.join() of the next worker, which has finished, and
\* m_num_threads--.
SolveJoin(t) ==
    /\ Running(t)
    /\ LET frame == Top(threads[t])
       IN /\ frame.fn = "solve" /\ frame.pc = "join"
          /\ frame.joined < Len(frame.workers)
          /\ threads[frame.workers[frame.joined + 1]] = <<>>
          /\ threads' = [threads EXCEPT ![t] =
                 SetTop(@, [frame EXCEPT !.joined = @ + 1])]
    /\ m_num_threads' = m_num_threads - 1
    /\ UNCHANGED <<inputVars, phase, error, matchVars, m_prune_limit, m_memo,
                   heap, head, run, prev_stacks,
                   freed>>

\* The end of solve taken without the joins.
SolveRankWithoutJoin(t) ==
    /\ Running(t)
    /\ LET frame == Top(threads[t])
           block == heap[frame.subtrees]
           hp    == [heap EXCEPT ![frame.subtrees] =
                        SwapToFront(block, BestSlot(block, frame.depth))]
       IN /\ frame.fn = "solve" /\ frame.pc = "join"
          /\ m_memo' = set_memo(m_memo, frame.solution_indexes, frame.subtrees)
          /\ Return(t, Pop(threads[t]), hp, frame.subtrees)
    /\ UNCHANGED <<inputVars, error, matchVars, m_prune_limit, m_num_threads,
                   run, prev_stacks,
                   freed>>

\* solve after the joins: pick the best candidate, swap it to the front,
\* memoise it and return it.
SolveRank(t) ==
    /\ Running(t)
    /\ LET frame == Top(threads[t])
           block == heap[frame.subtrees]
           hp    == [heap EXCEPT ![frame.subtrees] =
                        SwapToFront(block, BestSlot(block, frame.depth))]
       IN /\ frame.fn = "solve" /\ frame.pc = "join"
          /\ frame.joined = Len(frame.workers)
          /\ m_memo' = set_memo(m_memo, frame.solution_indexes, frame.subtrees)
          /\ Return(t, Pop(threads[t]), hp, frame.subtrees)
    /\ UNCHANGED <<inputVars, error, matchVars, m_prune_limit, m_num_threads,
                   run, prev_stacks,
                   freed>>

\* traverse_matches, next match value with solutions: exactly one, which
\* mark_solved records.
TraverseMarkSolved(t) ==
    /\ Running(t)
    /\ LET frame == Top(threads[t])
           match == SetMin(NonEmptyFrom(frame.guess_index,
                                        frame.solution_indexes, frame.match))
           avail_solutions == SolutionsByMatch(frame.guess_index,
                                               frame.solution_indexes, match)
       IN /\ frame.fn = "traverse_matches" /\ frame.pc = "loop"
          /\ Len(avail_solutions) = 1
          /\ heap' = SetNode(heap, frame.subtree,
                 mark_solved(NodeAt(heap, frame.subtree), frame.guess_index,
                             avail_solutions[1]))
          /\ threads' = [threads EXCEPT ![t] = TraverseContinue(@, match)]
    /\ UNCHANGED <<inputVars, phase, error, matchVars, m_prune_limit, m_memo,
                   m_num_threads, head, run, prev_stacks,
                   freed>>

\* the depth of solve calls at which the call stack of the process is used
\* up
MaxDepth == 10

\* traverse_matches, next match value with solutions: several, on which
\* traverse_match calls solve one level down.
TraverseRecurse(t) ==
    /\ Running(t)
    /\ LET frame == Top(threads[t])
           match == SetMin(NonEmptyFrom(frame.guess_index,
                                        frame.solution_indexes, frame.match))
           avail_solutions == SolutionsByMatch(frame.guess_index,
                                               frame.solution_indexes, match)
       IN /\ frame.fn = "traverse_matches" /\ frame.pc = "loop"
          /\ Len(avail_solutions) > 1
          /\ frame.depth < MaxDepth
          /\ threads' = [threads EXCEPT ![t] =
                 Append(SetTop(@, [frame EXCEPT !.pc = "call",
                                                !.match = match]),
                        SolveFrame(avail_solutions, frame.depth + 1))]
    /\ UNCHANGED <<inputVars, phase, error, matchVars, m_prune_limit, m_memo,
                   m_num_threads, heap, head, run, prev_stacks,
                   freed>>

\* traverse_match calls solve one level down and no stack is left for the
\* call: the process ends with a segmentation fault.
StackOverflow(t) ==
    /\ Running(t)
    /\ LET frame == Top(threads[t])
           match == SetMin(NonEmptyFrom(frame.guess_index,
                                        frame.solution_indexes, frame.match))
           avail_solutions == SolutionsByMatch(frame.guess_index,
                                               frame.solution_indexes, match)
       IN /\ frame.fn = "traverse_matches" /\ frame.pc = "loop"
          /\ Len(avail_solutions) > 1
          /\ frame.depth >= MaxDepth
    /\ phase' = "crashed"
    /\ UNCHANGED <<inputVars, error, matchVars, m_prune_limit, m_memo,
                   m_num_threads, heap, threads, head, run, prev_stacks,
                   freed>>

(***************************************************************************)
(* The release of a tree: results::~results and results::delete_tree.      *)
(***************************************************************************)
\* the sequences of seqs one after the other
RECURSIVE Flatten(_)
Flatten(seqs) ==
    IF seqs = <<>> THEN <<>> ELSE Head(seqs) \o Flatten(Tail(seqs))

\* delete_tree as a walk that goes through the children of every candidate
\* of a block.
RECURSIVE delete_tree_all_slots(_, _)
delete_tree_all_slots(hp, tree) ==
    Flatten([k \in 1..Len(hp[tree]) |->
                Flatten([j \in 1..Len(hp[tree][k].children) |->
                            delete_tree_all_slots(hp,
                                                  hp[tree][k].children[j])])])
    \o <<tree>>

\* results::delete_tree: the delete[] calls it makes, in order. tree points
\* to slot 0 of its block, whose children it walks before it releases the
\* block.
RECURSIVE delete_tree(_, _)
delete_tree(hp, tree) ==
    Flatten([j \in 1..Len(hp[tree][1].children) |->
                delete_tree(hp, hp[tree][1].children[j])])
    \o <<tree>>

\* no block is released twice
ReleasedOnce(calls) ==
    \A i \in 1..Len(calls), j \in 1..Len(calls) :
        calls[i] = calls[j] => i = j

\* results::~results on the tree solve(int) has returned. A second delete[]
\* of a block is undefined: the process may go on or end in the allocator.
\* heap keeps what the blocks held; freed says which of them are released.
Destroy ==
    /\ phase = "done"
    /\ freed' = delete_tree(heap, head)
    /\ phase' \in IF ReleasedOnce(freed') THEN {"destroyed"}
                  ELSE {"destroyed", "crashed"}
    /\ UNCHANGED <<inputVars, error, matchVars, m_prune_limit, m_memo,
                   m_num_threads, heap, threads, head, cpu, run,
                   prev_stacks>>

(***************************************************************************)
(* The search on word lists of pairwise disjoint one-letter words, with    *)
(* a guess that is no solution added at the end of the guess list.         *)
(***************************************************************************)
\* most solutions of a search in which solve lays work off to workers
MaxParallelSolutions == 4
\* most solutions of a search with one candidate per level
MaxSolutions == 10
\* largest prune_limit passed to solve
MaxPruneLimit == 2
\* how many of ExtraGuesses are tried, each alone
MaxExtraGuesses == 1

MonoLetters ==
    <<"a", "b", "c", "d", "e", "f", "g", "h", "i", "j", "k", "l", "m", "n",
      "o", "p", "q", "r", "s", "t", "u", "v", "w", "x", "y", "z", "A", "B",
      "C", "D", "E", "F", "G", "H", "I", "J", "K", "L", "M", "N", "O", "P",
      "Q", "R", "S", "T", "U", "V", "W", "X", "Y", "Z">>
MonoWord(k) == [p \in 1..NUM_WORD_LETTERS |-> MonoLetters[k]]
MonoWords(n) == [k \in 1..n |-> MonoWord(k)]

abzzz == <<"a", "b", "z", "z", "z">>
abczz == <<"a", "b", "c", "z", "z">>
zzcdz == <<"z", "z", "c", "d", "z">>
ExtraGuesses == <<abzzz, abczz, zzcdz>>

\* The solver after its construction from n one-letter solutions, which
\* are guesses too, and for e > 0 the further guess ExtraGuesses[e].
Constructed(n, e) ==
    /\ solutions = MonoWords(n)
    /\ valid_guesses = MonoWords(n) \o (IF e = 0 THEN <<>>
                                        ELSE <<ExtraGuesses[e]>>)
    /\ phase = "constructed"
    /\ error = "none"
    /\ m_match_vals = init_match_vals(valid_guesses, solutions)
    /\ m_match_strings = InitMatchStrings(valid_guesses, solutions,
                                          Len(valid_guesses) * Len(solutions))
    /\ SearchIdle

\* most levels of peeling guesses above the late split
MaxPeelLevels == 5

\* A word list on which a guess that is no solution is ranked first only
\* once levels guesses have been made. Level k has NUM_WORD_LETTERS
\* one-letter solutions and one guess, PeelGuess(k), that tells them all
\* apart. Under them are three one-letter solutions, two solutions that
\* share their last letter, and the guess LateGuess, which tells the three
\* apart and sees the two alike with the largest match value.
PeelLetter(k, p) == MonoLetters[(k - 1) * NUM_WORD_LETTERS + p]
PeelWords(levels) ==
    [index \in 1..(levels * NUM_WORD_LETTERS) |-> MonoWord(index)]
PeelGuess(k) == [p \in 1..NUM_WORD_LETTERS |-> PeelLetter(k, p)]
LateLetter(levels, p) == MonoLetters[levels * NUM_WORD_LETTERS + p]
LateSolutions(levels) ==
    << [p \in 1..NUM_WORD_LETTERS |-> LateLetter(levels, 1)],
       [p \in 1..NUM_WORD_LETTERS |-> LateLetter(levels, 2)],
       [p \in 1..NUM_WORD_LETTERS |-> LateLetter(levels, 3)],
       [p \in 1..NUM_WORD_LETTERS |->
           IF p = NUM_WORD_LETTERS THEN LateLetter(levels, 4)
           ELSE LateLetter(levels, 5)],
       [p \in 1..NUM_WORD_LETTERS |->
           IF p = NUM_WORD_LETTERS THEN LateLetter(levels, 4)
           ELSE LateLetter(levels, 6)] >>
LateGuess(levels) ==
    <<LateLetter(levels, 1), LateLetter(levels, 2), LateLetter(levels, 3),
      LateLetter(levels, 7), LateLetter(levels, 4)>>

ConstructedLate(levels) ==
    /\ solutions = PeelWords(levels) \o LateSolutions(levels)
    /\ valid_guesses = solutions \o [k \in 1..levels |-> PeelGuess(k)]
                                 \o <<LateGuess(levels)>>
    /\ phase = "constructed"
    /\ error = "none"
    /\ m_match_vals = init_match_vals(valid_guesses, solutions)
    /\ m_match_strings = InitMatchStrings(valid_guesses, solutions,
                                          Len(valid_guesses) * Len(solutions))
    /\ SearchIdle

\* most levels of peeling guesses above the deep split
MaxDeepLevels == 6

\* A word list on which, once levels guesses have been made, a guess that
\* is no solution is ranked first, finds three one-letter solutions one
\* each under its smallest match values and sees three more solutions,
\* which share their last letter, alike under a larger one.
DeepLetter(levels, p) == MonoLetters[levels * NUM_WORD_LETTERS + p]
DeepSolutions(levels) ==
    [k \in 1..6 |-> [p \in 1..NUM_WORD_LETTERS |->
        IF k <= 3 THEN DeepLetter(levels, k)
        ELSE IF p = NUM_WORD_LETTERS THEN DeepLetter(levels, 4)
        ELSE DeepLetter(levels, k + 1)]]
DeepGuess(levels) ==
    <<DeepLetter(levels, 1), DeepLetter(levels, 2), DeepLetter(levels, 3),
      DeepLetter(levels, 8), DeepLetter(levels, 4)>>

ConstructedDeep(levels) ==
    /\ solutions = PeelWords(levels) \o DeepSolutions(levels)
    /\ valid_guesses = solutions \o [k \in 1..levels |-> PeelGuess(k)]
                                 \o <<DeepGuess(levels)>>
    /\ phase = "constructed"
    /\ error = "none"
    /\ m_match_vals = init_match_vals(valid_guesses, solutions)
    /\ m_match_strings = InitMatchStrings(valid_guesses, solutions,
                                          Len(valid_guesses) * Len(solutions))
    /\ SearchIdle

\* most solutions of a search on words that share letters
MaxSmallSolutions == 4

\* Words that share letters with each other, some with a letter twice.
baaaa == <<"b", "a", "a", "a", "a">>
abbbb == <<"a", "b", "b", "b", "b">>
zzzab == <<"z", "z", "z", "a", "b">>
SmallWords == <<MonoWord(1), MonoWord(2), abzzz, baaaa, abbbb, zzzab>>

\* the words of SmallWords at the positions picked, in rising order
RECURSIVE SmallList(_)
SmallList(picked) ==
    IF picked = {} THEN <<>>
    ELSE <<SmallWords[SetMin(picked)]>> \o SmallList(picked \ {SetMin(picked)})

\* The solver after its construction from the solutions picked from
\* SmallWords, which are guesses too, and the further guesses extra.
ConstructedSmall(picked, extra) ==
    /\ solutions = SmallList(picked)
    /\ valid_guesses = SmallList(picked) \o SmallList(extra)
    /\ phase = "constructed"
    /\ error = "none"
    /\ m_match_vals = init_match_vals(valid_guesses, solutions)
    /\ m_match_strings = InitMatchStrings(valid_guesses, solutions,
                                          Len(valid_guesses) * Len(solutions))
    /\ SearchIdle

\* most solutions and most further guesses of a search in which guesses
\* share no letter with any solution
MaxSpareSolutions == 3
MaxSpareGuesses == 2

\* The solver after its construction from n one-letter solutions, which
\* are guesses too, and u further one-letter guesses of other letters.
ConstructedSpare(n, u) ==
    /\ solutions = MonoWords(n)
    /\ valid_guesses = MonoWords(n + u)
    /\ phase = "constructed"
    /\ error = "none"
    /\ m_match_vals = init_match_vals(valid_guesses, solutions)
    /\ m_match_strings = InitMatchStrings(valid_guesses, solutions,
                                          Len(valid_guesses) * Len(solutions))
    /\ SearchIdle

InitSolve ==
    /\ \/ /\ \E n \in 1..MaxSolutions, e \in 0..MaxExtraGuesses :
                  Constructed(n, e)
          /\ prune_limit \in 1..MaxPruneLimit
          /\ prune_limit = 1 \/ Len(solutions) <= MaxParallelSolutions
       \/ /\ \E levels \in 0..MaxPeelLevels : ConstructedLate(levels)
          /\ prune_limit = 1
       \/ /\ \E levels \in 0..MaxDeepLevels : ConstructedDeep(levels)
          /\ prune_limit = 1
       \/ /\ \E picked \in SUBSET (1..Len(SmallWords)) :
                 /\ Cardinality(picked) \in 1..MaxSmallSolutions
                 /\ \E extra \in SUBSET (1..Len(SmallWords) \ picked) :
                        /\ Cardinality(extra) <= 1
                        /\ ConstructedSmall(picked, extra)
          /\ prune_limit = 1
    /\ sort_ties \in {"asc", "desc", "libstdc++"}

\* Any thread may take the next step.
Next ==
    \/ Solve
    \/ \E t \in DOMAIN threads : SolveCached(t) /\ UNCHANGED cpu
    \/ \E t \in DOMAIN threads : SolveExpand(t) /\ UNCHANGED cpu
    \/ \E t \in DOMAIN threads : SolveRunInline(t) /\ UNCHANGED cpu
    \/ \E t \in DOMAIN threads : SolveSpawn(t) /\ UNCHANGED cpu
    \/ \E t \in DOMAIN threads : SolveCount(t) /\ UNCHANGED cpu
    \/ \E t \in DOMAIN threads : SolveJoin(t) /\ UNCHANGED cpu
    \/ \E t \in DOMAIN threads : SolveRank(t) /\ UNCHANGED cpu
    \/ \E t \in DOMAIN threads : TraverseMarkSolved(t) /\ UNCHANGED cpu
    \/ \E t \in DOMAIN threads : TraverseRecurse(t) /\ UNCHANGED cpu
    \/ Destroy

Spec == InitSolve /\ [][Next]_vars

(***************************************************************************)
(* Reading a tree: extract_tree_stacks.                                    *)
(***************************************************************************)
\* guess_to_solution_index: the position of the guess in the solutions, and
\* the number of solutions when it is not among them.
guess_to_solution_index(guess_index) ==
    LET hits == {k \in 1..Len(solutions) :
                    solutions[k] = valid_guesses[guess_index + 1]}
    IN IF hits = {} THEN Len(solutions) ELSE SetMin(hits) - 1

\* The extraction with the node's own guess pushed before its own solution
\* is assigned.
RECURSIVE extract_tree_stacks_after_push(_, _, _)
extract_tree_stacks_after_push(hp, subtree, guesses_so_far) ==
    LET node   == hp[subtree][1]
        pushed == Append(guesses_so_far, node.guess_index)
    IN (IF node.is_leaf
        THEN << <<guess_to_solution_index(node.guess_index), pushed>> >>
        ELSE <<>>)
       \o [k \in 1..Len(node.leaves) |-> <<node.leaves[k], pushed>>]
       \o Flatten([k \in 1..Len(node.children) |->
              extract_tree_stacks_after_push(hp, node.children[k], pushed)])

\* The assignments stacks_by_solution[solution_index] = guesses_so_far that
\* the recursive extract_tree_stacks makes, in the order it makes them, as
\* pairs <<solution_index, guesses_so_far>>.
RECURSIVE extract_tree_stacks(_, _, _)
extract_tree_stacks(hp, subtree, guesses_so_far) ==
    LET node   == hp[subtree][1]
        pushed == Append(guesses_so_far, node.guess_index)
    IN (IF node.is_leaf
        THEN << <<guess_to_solution_index(node.guess_index),
                  guesses_so_far>> >>
        ELSE <<>>)
       \o [k \in 1..Len(node.leaves) |-> <<node.leaves[k], pushed>>]
       \o Flatten([k \in 1..Len(node.children) |->
              extract_tree_stacks(hp, node.children[k], pushed)])

\* The map the public extract_tree_stacks returns for the tree at subtree:
\* every key holds the stack last assigned to it.
StacksBySolution(hp, subtree) ==
    LET writes == extract_tree_stacks(hp, subtree, <<>>)
        Last(s) == CHOOSE k \in 1..Len(writes) :
                       /\ writes[k][1] = s
                       /\ \A j \in (k + 1)..Len(writes) : writes[j][1] # s
    IN [s \in {writes[k][1] : k \in 1..Len(writes)} |-> writes[Last(s)][2]]

(***************************************************************************)
(* Repeated searches, with workers that run until they block or finish.    *)
(* Every behaviour of this specification is one of the schedules the       *)
(* operating system may choose; the converse does not hold.                *)
(***************************************************************************)
\* calls of solve(prune_limit) on one solver
MaxRuns == 2
\* most solutions of a repeated search
MaxRepeatSolutions == 11
\* how many of ExtraGuesses are tried in a repeated search, each alone
MaxRepeatExtraGuesses == 2

\* solve(prune_limit) is called again once the search before it is over;
\* the stacks of the tree it returned are kept for comparison.
SolveAgain ==
    /\ phase = "done"
    /\ run < MaxRuns
    /\ prev_stacks' = StacksBySolution(heap, head)
    /\ m_prune_limit' = Min(prune_limit, m_num_valid_guesses - 1)
    /\ m_memo' = [key \in {} |-> NULL]
    /\ heap' = [b \in {} |-> <<>>]
    /\ head' = NULL
    /\ threads' = [t \in {MainThread} |-> <<SolveFrame(AllSolutionIndexes, 0)>>]
    /\ cpu' = MainThread
    /\ phase' = "solving"
    /\ run' = run + 1
    /\ UNCHANGED <<inputVars, error, matchVars, m_num_threads, freed>>

\* thread c has finished or waits in join for a worker that has not
Blocked(c) ==
    IF c \notin DOMAIN threads THEN TRUE
    ELSE IF threads[c] = <<>> THEN TRUE
    ELSE LET frame == Top(threads[c])
         IN /\ frame.fn = "solve" /\ frame.pc = "join"
            /\ frame.joined < Len(frame.workers)
            /\ threads[frame.workers[frame.joined + 1]] # <<>>

\* thread t may take the next step: it is the one running, or the one
\* running cannot go on
Scheduled(t) == IF cpu = t THEN TRUE ELSE Blocked(cpu)

InitRepeat ==
    /\ \/ /\ \E n \in 1..MaxRepeatSolutions, e \in 0..MaxRepeatExtraGuesses :
                 Constructed(n, e)
          /\ prune_limit \in 1..MaxPruneLimit
       \/ /\ \E n \in 2..MaxSpareSolutions, u \in 1..MaxSpareGuesses :
                 ConstructedSpare(n, u)
          /\ prune_limit = Len(valid_guesses) - 1
    /\ sort_ties \in {"asc", "desc", "libstdc++"}

\* The running thread takes the next step, or another one when it cannot.
NextRepeat ==
    \/ Solve
    \/ SolveAgain
    \/ \E t \in DOMAIN threads : Scheduled(t) /\ SolveCached(t) /\ cpu' = t
    \/ \E t \in DOMAIN threads : Scheduled(t) /\ SolveExpand(t) /\ cpu' = t
    \/ \E t \in DOMAIN threads : Scheduled(t) /\ SolveRunInline(t) /\ cpu' = t
    \/ \E t \in DOMAIN threads : Scheduled(t) /\ SolveSpawn(t) /\ cpu' = t
    \/ \E t \in DOMAIN threads : Scheduled(t) /\ SolveCount(t) /\ cpu' = t
    \/ \E t \in DOMAIN threads : Scheduled(t) /\ SolveJoin(t) /\ cpu' = t
    \/ \E t \in DOMAIN threads : Scheduled(t) /\ SolveRank(t) /\ cpu' = t
    \/ \E t \in DOMAIN threads : Scheduled(t) /\ TraverseMarkSolved(t) /\ cpu' = t
    \/ \E t \in DOMAIN threads : Scheduled(t) /\ TraverseRecurse(t) /\ cpu' = t
    \/ \E t \in DOMAIN threads : Scheduled(t) /\ StackOverflow(t) /\ cpu' = t

SpecRepeat == InitRepeat /\ [][NextRepeat]_vars

(***************************************************************************)
(* Properties of the match encoder.                                        *)
(***************************************************************************)
\* The two-pass reference: greens first, each consuming its solution
\* position; then, left to right over the other positions, the first
\* unconsumed non-green solution position holding the guess letter.
RefGreens(g, s) == {i \in Positions : g[i + 1] = s[i + 1]}

\* Second pass from position i on, with the solution positions consumed so
\* far: the verdicts of positions i .. NUM_WORD_LETTERS - 1.
RECURSIVE RefSecondPass(_, _, _, _)
RefSecondPass(g, s, i, consumed) ==
    IF i >= NUM_WORD_LETTERS THEN <<>>
    ELSE IF i \in RefGreens(g, s)
    THEN <<2>> \o RefSecondPass(g, s, i + 1, consumed)
    ELSE LET free == {j \in Positions :
                         /\ j \notin consumed
                         /\ j \notin RefGreens(g, s)
                         /\ s[j + 1] = g[i + 1]}
         IN IF free = {}
            THEN <<0>> \o RefSecondPass(g, s, i + 1, consumed)
            ELSE <<1>> \o RefSecondPass(g, s, i + 1,
                     consumed \cup {CHOOSE j \in free : \A k \in free : j <= k})

RefVerdicts(g, s) == RefSecondPass(g, s, 0, RefGreens(g, s))

RECURSIVE RefSum(_, _)
RefSum(verdicts, i) ==
    IF i >= NUM_WORD_LETTERS THEN 0
    ELSE verdicts[i + 1] * raise_power(3, i) + RefSum(verdicts, i + 1)

RefMatchVal(g, s) == RefSum(RefVerdicts(g, s), 0)

\* C1: for every guess and solution, calc_match_val returns the value of
\* the two-pass reference, sum of verdict_i * 3^i.
C1_MatchesTwoPass ==
    phase = "encoded" =>
        m_match_vals[1] = RefMatchVal(valid_guesses[1], solutions[1])

\* C1 witness: an encoded pair with a repeated guess letter of which one
\* occurrence is yellow and a later one grey because the letter is consumed.
C1_Witness ==
    /\ phase = "encoded"
    /\ \E i, k \in Positions :
          /\ i < k
          /\ valid_guesses[1][i + 1] = valid_guesses[1][k + 1]
          /\ RefVerdicts(valid_guesses[1], solutions[1])[i + 1] = 1
          /\ RefVerdicts(valid_guesses[1], solutions[1])[k + 1] = 0
          /\ \E j \in Positions : solutions[1][j + 1] = valid_guesses[1][k + 1]

\* C3 as claimed: crate against trace gives the string yyGyG and value 211.
C3_AsClaimed ==
    (phase = "encoded" /\ valid_guesses[1] = crate /\ solutions[1] = trace) =>
        /\ m_match_vals[1] = 211
        /\ m_match_strings[m_match_vals[1]] = <<"y", "y", "G", "y", "G">>

\* C3 amended: crate against trace gives the string yGGyG and value 214
\* (the r of crate is in the right place, so it is green, not yellow).
C3_CrateTrace ==
    (phase = "encoded" /\ valid_guesses[1] = crate /\ solutions[1] = trace) =>
        /\ m_match_vals[1] = 214
        /\ m_match_strings[m_match_vals[1]] = <<"y", "G", "G", "y", "G">>

\* C3 witness: crate has been encoded against trace.
C3_Witness ==
    phase = "encoded" /\ valid_guesses[1] = crate /\ solutions[1] = trace

\* C4 as claimed: allee against later gives the string yyyG. .
C4_AsClaimed ==
    (phase = "encoded" /\ valid_guesses[1] = allee /\ solutions[1] = later) =>
        m_match_strings[m_match_vals[1]] = <<"y", "y", "y", "G", ".">>

\* C4 amended: allee against later gives the string yy.G. (value 58): the
\* second l is grey because the only l of later is already consumed.
C4_AlleeLater ==
    (phase = "encoded" /\ valid_guesses[1] = allee /\ solutions[1] = later) =>
        /\ m_match_strings[m_match_vals[1]] = <<"y", "y", ".", "G", ".">>
        /\ m_match_vals[1] = 58

\* C4 witness: allee has been encoded against later.
C4_Witness ==
    phase = "encoded" /\ valid_guesses[1] = allee /\ solutions[1] = later

(***************************************************************************)
(* Properties of the constructor.                                          *)
(***************************************************************************)
\* C2: once constructed, match[g, s] is all greens exactly when guess g and
\* solution s are the same word.
C2_AllGreensIffSameWord ==
    phase = "constructed" =>
        \A g \in 0..(m_num_valid_guesses - 1), s \in 0..(m_num_solutions - 1) :
            (lookup_match(g, s) = ALL_GREENS_MATCH)
                <=> (valid_guesses[g + 1] = solutions[s + 1])

\* C2 witness: a constructed solver whose matrix holds an all-greens entry
\* and an entry for two different words that share letters.
C2_Witness ==
    /\ phase = "constructed"
    /\ \E g \in 0..(m_num_valid_guesses - 1), s \in 0..(m_num_solutions - 1) :
          lookup_match(g, s) = ALL_GREENS_MATCH
    /\ \E g \in 0..(m_num_valid_guesses - 1), s \in 0..(m_num_solutions - 1) :
          /\ valid_guesses[g + 1] # solutions[s + 1]
          /\ lookup_match(g, s) > 0

ValidInput ==
    /\ valid_guesses # <<>>
    /\ solutions # <<>>
    /\ \A w \in Range(valid_guesses) \cup Range(solutions) :
          Len(w) = NUM_WORD_LETTERS
    /\ Range(solutions) \subseteq Range(valid_guesses)

\* C10: construction succeeds exactly on valid input; otherwise it fails
\* with one of the errors and the match matrix and strings stay untouched.
C10_ConstructionIffValid ==
    phase # "new" =>
        /\ phase \in {"constructed", "failed"}
        /\ (phase = "constructed") <=> ValidInput
        /\ phase = "constructed" => error = "none"
        /\ phase = "failed" =>
              /\ error \in {"Empty guesses", "Empty solutions",
                            "Solution length", "Guess length",
                            "Guess set does not contain solution"}
              /\ m_match_vals = ZeroMatchVals(valid_guesses, solutions)
              /\ m_match_strings = <<>>

\* C10 witness: a construction that failed although both lists are
\* non-empty and all words have the right length.
C10_Witness ==
    /\ phase = "failed"
    /\ error = "Guess set does not contain solution"
    /\ valid_guesses # <<>>
    /\ \A w \in Range(valid_guesses) \cup Range(solutions) :
          Len(w) = NUM_WORD_LETTERS

(***************************************************************************)
(* Properties of the trees the search returns.                             *)
(***************************************************************************)
\* the blocks whose solve call has returned them: the tree handed to
\* results, the memoised blocks and the children of nodes
ReturnedBlocks ==
    {b \in DOMAIN heap :
        \/ b = head
        \/ \E key \in DOMAIN m_memo : m_memo[key] = b
        \/ \E c \in DOMAIN heap : \E k \in 1..Len(heap[c]) :
               \E j \in 1..Len(heap[c][k].children) :
                   heap[c][k].children[j] = b}

\* the blocks of the tree under block b
RECURSIVE TreeBlocks(_, _)
TreeBlocks(hp, b) ==
    {b} \cup UNION {TreeBlocks(hp, hp[b][1].children[j]) :
                       j \in 1..Len(hp[b][1].children)}

\* the solutions recorded under the node the block b is returned as
RECURSIVE Recorded(_, _)
Recorded(hp, b) ==
    LET node == hp[b][1]
    IN (IF node.is_leaf THEN {guess_to_solution_index(node.guess_index)}
        ELSE {})
       \cup Range(node.leaves)
       \cup UNION {Recorded(hp, node.children[j]) :
                      j \in 1..Len(node.children)}

\* the number of guesses from the node of block b, inclusive, to solution s
RECURSIVE GuessesTo(_, _, _)
GuessesTo(hp, b, s) ==
    LET node == hp[b][1]
    IN IF node.is_leaf /\ guess_to_solution_index(node.guess_index) = s
       THEN 1
       ELSE IF s \in Range(node.leaves) THEN 2
       ELSE LET j == CHOOSE j \in 1..Len(node.children) :
                         s \in Recorded(hp, node.children[j])
            IN 1 + GuessesTo(hp, node.children[j], s)

RECURSIVE SumGuessesTo(_, _, _)
SumGuessesTo(hp, b, sols) ==
    IF sols = {} THEN 0
    ELSE LET s == CHOOSE s \in sols : TRUE
         IN GuessesTo(hp, b, s) + SumGuessesTo(hp, b, sols \ {s})

\* C5: a node that solve has returned counts in solved_count the distinct
\* solutions recorded under it (itself when is_leaf, its leaves, those of
\* its children), all of them solutions it was given, and holds in
\* total_depth the sum of the guesses from it to each of them.
C5_CountsMatchRecordedSolutions ==
    /\ \A b \in ReturnedBlocks :
           /\ heap[b][1].solved_count = Cardinality(Recorded(heap, b))
           /\ heap[b][1].total_depth =
                  SumGuessesTo(heap, b, Recorded(heap, b))
    /\ \A key \in DOMAIN m_memo :
           Recorded(heap, m_memo[key]) \subseteq Range(key)

\* a finished search whose tree has a node with its own solution, a leaves
\* entry and a child, under which more solutions are recorded
C5_Witness ==
    /\ phase = "done"
    /\ heap[head][1].is_leaf
    /\ heap[head][1].children # <<>>
    /\ \E b \in TreeBlocks(heap, head) : heap[b][1].leaves # <<>>
    /\ heap[head][1].solved_count >= 4
    /\ heap[head][1].total_depth > 2 * heap[head][1].solved_count

\* C6: every candidate of a block that solve has returned, the returned
\* node among them, has min_depth >= 1.
C6_MinDepthAtLeastOne ==
    \A b \in ReturnedBlocks : \A k \in 1..Len(heap[b]) :
        heap[b][k].min_depth >= 1

\* C7 as claimed: the root's solved_count is at most the number of
\* solutions, and equals it exactly when no traverse_matches loop of a node
\* of the returned tree was stopped by traverse_match returning false.
C7_AsClaimed ==
    phase = "done" =>
        /\ heap[head][1].solved_count <= m_num_solutions
        /\ heap[head][1].solved_count = m_num_solutions
               <=> \A b \in TreeBlocks(heap, head) : ~heap[b][1].stopped

\* C7: the root's solved_count is at most the number of solutions, and
\* equals it exactly when no traverse_matches loop of a node of the
\* returned tree was stopped while match values with solutions were still
\* to come.
C7_AllSolvedIffNothingSkipped ==
    phase = "done" =>
        /\ heap[head][1].solved_count <= m_num_solutions
        /\ heap[head][1].solved_count = m_num_solutions
               <=> \A b \in TreeBlocks(heap, head) : ~heap[b][1].skipped

\* a finished search that lost solutions to a stopped loop
C7_Witness ==
    /\ phase = "done"
    /\ heap[head][1].solved_count < m_num_solutions
    /\ \E b \in TreeBlocks(heap, head) : heap[b][1].skipped

\* The child that traverse_matches has built on node for the solutions
\* with match value match, as a position in node.children: children are
\* pushed in the order of the match values with two or more solutions.
ChildPosition(node, solution_indexes, match) ==
    1 + Cardinality({m \in NonEmptyFrom(node.guess_index, solution_indexes, 0) :
                        /\ m < match
                        /\ Len(SolutionsByMatch(node.guess_index,
                                                solution_indexes, m)) > 1})

\* Playing the guesses stack[i], stack[i + 1], ... from the node of block b
\* with solution_indexes feasible, against solution s: the solutions
\* feasible after the feedback on the last guess, and <<>> when a guess of
\* stack is not the guess of the node reached or the tree has no node to
\* go on with.
RECURSIVE Play(_, _, _, _, _, _)
Play(hp, b, solution_indexes, stack, i, s) ==
    LET node   == hp[b][1]
        match  == lookup_match(node.guess_index, s)
        bucket == SolutionsByMatch(node.guess_index, solution_indexes, match)
        child  == ChildPosition(node, solution_indexes, match)
    IN IF stack[i] # node.guess_index THEN <<>>
       ELSE IF i = Len(stack) THEN bucket
       ELSE IF Len(bucket) < 2 \/ child > Len(node.children) THEN <<>>
       ELSE Play(hp, node.children[child], bucket, stack, i + 1, s)

\* stack is a play from the root of the tree whose last guess is the word s
EndsAtOwnGuess(stack, s) ==
    /\ stack # <<>>
    /\ Play(heap, head, AllSolutionIndexes, stack, 1, s) # <<>>
    /\ valid_guesses[stack[Len(stack)] + 1] = solutions[s + 1]

\* stack is a play from the root of the tree after whose last feedback s is
\* the only solution left
EndsWithOnlySolution(stack, s) ==
    /\ stack # <<>>
    /\ Play(heap, head, AllSolutionIndexes, stack, 1, s) = <<s>>

\* no solution is assigned a stack twice
NoSolutionTwice ==
    LET writes == extract_tree_stacks(heap, head, <<>>)
    IN \A j, k \in 1..Len(writes) : j # k => writes[j][1] # writes[k][1]

\* C8 as claimed: the sequence extracted for a recorded solution s is a play
\* from the root's guess down the children built for the solutions that
\* match like s, and ends at a node whose guess is the word s or at a node
\* after whose feedback only s is left; no solution has two sequences.
C8_AsClaimed ==
    phase = "done" =>
        /\ \A s \in DOMAIN StacksBySolution(heap, head) :
               LET stack == StacksBySolution(heap, head)[s]
               IN EndsAtOwnGuess(stack, s) \/ EndsWithOnlySolution(stack, s)
        /\ NoSolutionTwice

\* C8: the sequence extracted for a solution s recorded in a leaves entry
\* is a play from the root's guess that ends at a node, with another guess
\* than s, after whose feedback only s is left; the sequence extracted for
\* a solution s that is a node's own guess is that play without its last
\* guess, the word s; no solution has two sequences.
C8_StacksArePlays ==
    phase = "done" =>
        /\ \A s \in DOMAIN StacksBySolution(heap, head) :
               LET stack == StacksBySolution(heap, head)[s]
               IN \/ /\ EndsWithOnlySolution(stack, s)
                     /\ ~EndsAtOwnGuess(stack, s)
                  \/ \E g \in 0..(m_num_valid_guesses - 1) :
                         EndsAtOwnGuess(Append(stack, g), s)
        /\ NoSolutionTwice

\* a finished search whose tree records a solution as a leaves entry two
\* levels down and another as the guess of a node below the root
C8_Witness ==
    /\ phase = "done"
    /\ \E s, u \in DOMAIN StacksBySolution(heap, head) :
           /\ Len(StacksBySolution(heap, head)[s]) >= 2
           /\ EndsWithOnlySolution(StacksBySolution(heap, head)[s], s)
           /\ StacksBySolution(heap, head)[u] # <<>>
           /\ \E g \in 0..(m_num_valid_guesses - 1) :
                  EndsAtOwnGuess(Append(StacksBySolution(heap, head)[u], g), u)

\* C9: when solve(prune_limit) is run again on the same guesses and
\* solutions, the tree it returns has the per-solution guess sequences of
\* the tree of the run before, whatever the schedule of the workers.
C9_RepeatedRunsSameStacks ==
    (phase = "done" /\ run >= 2) => StacksBySolution(heap, head) = prev_stacks

(***************************************************************************)
(* Properties of the single candidate of the early exit.                   *)
(***************************************************************************)
\* get_best_unique_match_guesses returns early on solution_indexes: some
\* guess has less than one solution per unique match
EarlyExit(solution_indexes) ==
    \E g \in 0..(m_num_valid_guesses - 1) :
        FracLess(avg_solutions_per_unique_match(solution_indexes, g),
                 <<1, 1>>)

\* the solve calls whose candidates have all been traversed and which have
\* not yet picked the best
TraversedCalls ==
    {frame \in UNION {Range(threads[t]) : t \in DOMAIN threads} :
        frame.fn = "solve" /\ frame.pc = "join"}

\* C11: when the ranker returns early for the feasible solutions F with the
\* guess g, g is a solution of F, every solution of F has a match value of
\* its own, and the one node built from g has, once traversed, no children,
\* is_leaf set, the solutions of F other than g as its leaves, solved_count
\* |F| and total_depth 2 * |F| - 1.
C11_EarlyExitNode ==
    \A frame \in TraversedCalls :
        EarlyExit(frame.solution_indexes) =>
            LET F    == Range(frame.solution_indexes)
                node == heap[frame.subtrees][1]
                g    == node.guess_index
            IN /\ Len(heap[frame.subtrees]) = 1
               /\ g = frame.best_guesses[1][2]
               /\ guess_to_solution_index(g) \in F
               /\ \A r, s \in F :
                      lookup_match(g, r) = lookup_match(g, s) => r = s
               /\ node.children = <<>>
               /\ node.is_leaf
               /\ Range(node.leaves) = F \ {guess_to_solution_index(g)}
               /\ Len(node.leaves) = Cardinality(F) - 1
               /\ node.solved_count = Cardinality(F)
               /\ node.total_depth = 2 * Cardinality(F) - 1

\* a traversed early-exit node for three solutions whose guess is not the
\* first of the guess list
C11_Witness ==
    \E frame \in TraversedCalls :
        /\ EarlyExit(frame.solution_indexes)
        /\ Len(frame.solution_indexes) = 3
        /\ heap[frame.subtrees][1].solved_count = 3
        /\ heap[frame.subtrees][1].total_depth = 5
        /\ frame.best_guesses[1][2] > 0

(***************************************************************************)
(* Properties of the recursion.                                            *)
(***************************************************************************)
\* C12: every call of solve made by traverse_match is on at least two
\* solutions, all of them among the solutions of the calling solve and
\* fewer than those, so that no chain of calls comes back to a set of
\* solutions and the search ends.
C12_FeasibleSetsShrink ==
    /\ phase # "crashed"
    /\ \A t \in DOMAIN threads : \A k \in 2..Len(threads[t]) :
           LET callee == threads[t][k]
               caller == threads[t][k - 1]
           IN callee.fn = "solve" =>
                  /\ Len(callee.solution_indexes) >= 2
                  /\ Range(callee.solution_indexes)
                         \subseteq Range(caller.solution_indexes)
                  /\ Range(callee.solution_indexes)
                         # Range(caller.solution_indexes)

(***************************************************************************)
(* Properties of the worker threads.                                       *)
(***************************************************************************)
\* the workers that have been started and not yet joined
LiveWorkers ==
    UNION {{frame.workers[j] : j \in (frame.joined + 1)..Len(frame.workers)} :
              frame \in UNION {Range(threads[t]) : t \in DOMAIN threads}}

\* C13: at every moment of a search the worker threads started and not yet
\* joined are at most m_max_threads, whatever the interleaving of the
\* threads that test m_num_threads.
C13_WorkersWithinCap == Cardinality(LiveWorkers) <= m_max_threads

(***************************************************************************)
(* Properties of the memo.                                                 *)
(***************************************************************************)
\* thread t takes the step in which its solve call picks the best
\* candidate, memoises it and returns
RankStep(t) ==
    /\ phase = "solving"
    /\ threads[t] # <<>>
    /\ Top(threads[t]).fn = "solve"
    /\ Top(threads[t]).pc = "join"
    /\ Top(threads[t]).joined = Len(Top(threads[t]).workers)
    /\ threads'[t] # threads[t]

\* C14: a block that solve has returned or memoised is complete: no step
\* writes to it or frees it afterwards, and the solutions recorded under a
\* memoised node are among the solutions of its key; a solve call that
\* returns stores its block under its solutions, in place of a block
\* another call has stored there, which stays as it is for the nodes that
\* hold it as a child.
C14_MemoNodesComplete ==
    [][/\ \A b \in ReturnedBlocks :
              b \in DOMAIN heap' /\ heap'[b] = heap[b]
       /\ \A key \in DOMAIN m_memo' :
              Recorded(heap', m_memo'[key]) \subseteq Range(key)
       /\ \A t \in DOMAIN threads :
              RankStep(t) =>
                  /\ Top(threads[t]).solution_indexes \in DOMAIN m_memo'
                  /\ m_memo'[Top(threads[t]).solution_indexes]
                         = Top(threads[t]).subtrees]_vars

\* two solve calls have stored a block for the same solutions: the node of
\* the first is a child in the tree and the memo holds the second
C14_Witness ==
    \E b \in ReturnedBlocks, key \in DOMAIN m_memo :
        /\ \A other \in DOMAIN m_memo : m_memo[other] # b
        /\ m_memo[key] # b
        /\ Recorded(heap, b) = Range(key)
        /\ Recorded(heap, m_memo[key]) = Range(key)

(***************************************************************************)
(* Properties of min_depth.                                                *)
(***************************************************************************)
\* the candidates on which a traverse_matches call of some thread is at work
Traversed ==
    {frame.subtree : frame \in
        {fr \in UNION {Range(threads[t]) : t \in DOMAIN threads} :
            fr.fn = "traverse_matches"}}

\* C15: while traverse_matches goes through the match values of one
\* candidate in ascending order, no match value it handles lowers the
\* candidate's min_depth.
C15_MinDepthNeverDecreases ==
    [][\A subtree \in Traversed :
          /\ subtree[1] \in DOMAIN heap'
          /\ NodeAt(heap', subtree).min_depth
                 >= NodeAt(heap, subtree).min_depth]_vars

\* C16: the min_depth of a node that solve has returned is the least
\* number of guesses, the node's own included, that leads from the node to
\* a solution recorded under it: 1 when the node is_leaf, else 2 when it
\* has a leaves entry, else one more than the least min_depth of its
\* children.
C16_MinDepthIsLeastGuesses ==
    \A b \in ReturnedBlocks :
        LET node == heap[b][1]
        IN Recorded(heap, b) # {} =>
              /\ node.min_depth =
                     SetMin({GuessesTo(heap, b, s) : s \in Recorded(heap, b)})
              /\ node.min_depth =
                     IF node.is_leaf THEN 1
                     ELSE IF node.leaves # <<>> THEN 2
                     ELSE 1 + SetMin({heap[node.children[j]][1].min_depth :
                                         j \in 1..Len(node.children)})

(***************************************************************************)
(* Properties of the ranker and of the choice among the candidates.        *)
(***************************************************************************)
\* the solve calls that have ranked the guesses and allocated their block
RankedCalls ==
    {frame \in UNION {Range(threads[t]) : t \in DOMAIN threads} :
        frame.fn = "solve" /\ frame.subtrees # NULL}

\* the guesses of the pairs in best_guesses
Selected(best_guesses) ==
    {best_guesses[k][2] : k \in 1..Len(best_guesses)}

\* The pairs are min(prune_limit, G - 1) pairs of a score and its guess,
\* of different guesses, in ascending score order, and no guess left out
\* has a smaller score than one of them.
SmallestScores(solution_indexes, best_guesses) ==
    /\ Len(best_guesses) = Min(prune_limit, m_num_valid_guesses - 1)
    /\ Cardinality(Selected(best_guesses)) = Len(best_guesses)
    /\ \A k \in 1..Len(best_guesses) :
          /\ best_guesses[k][2] \in 0..(m_num_valid_guesses - 1)
          /\ best_guesses[k][1] =
                 avg_solutions_per_unique_match(solution_indexes,
                                                best_guesses[k][2])
          /\ k < Len(best_guesses) =>
                 ~FracLess(best_guesses[k + 1][1], best_guesses[k][1])
          /\ \A g \in (0..(m_num_valid_guesses - 1))
                          \ Selected(best_guesses) :
                 ~FracLess(avg_solutions_per_unique_match(solution_indexes,
                                                          g),
                           best_guesses[k][1])

\* Of guesses with equal scores the ones with the lower guess index are
\* among the pairs, and come first.
TiesByIndex(solution_indexes, best_guesses) ==
    \A k \in 1..Len(best_guesses) :
        /\ k < Len(best_guesses) =>
               (best_guesses[k + 1][1] = best_guesses[k][1]
                   => best_guesses[k][2] < best_guesses[k + 1][2])
        /\ \A g \in (0..(m_num_valid_guesses - 1))
                        \ Selected(best_guesses) :
               avg_solutions_per_unique_match(solution_indexes, g)
                       = best_guesses[k][1]
                   => best_guesses[k][2] < g

\* C17 as it is claimed: when no guess has a score below 1 the ranker
\* returns the min(prune_limit, G - 1) guesses with the smallest scores in
\* ascending score order, and of guesses with equal scores those with the
\* lower guess index are selected and listed first.
C17_AsClaimed ==
    \A frame \in RankedCalls :
        ~EarlyExit(frame.solution_indexes) =>
            /\ SmallestScores(frame.solution_indexes, frame.best_guesses)
            /\ TiesByIndex(frame.solution_indexes, frame.best_guesses)

\* C17: when no guess has a score below 1 the ranker returns
\* min(prune_limit, G - 1) pairs of a score and its guess, of different
\* guesses, in ascending score order, and no guess left out has a smaller
\* score than a returned one.
C17_RankerReturnsSmallest ==
    \A frame \in RankedCalls :
        ~EarlyExit(frame.solution_indexes) =>
            SmallestScores(frame.solution_indexes, frame.best_guesses)

\* the ranker has returned two guesses of different scores, and a guess
\* left out has the score and a lower index than the second of them
C17_Witness ==
    \E frame \in RankedCalls :
        /\ ~EarlyExit(frame.solution_indexes)
        /\ Len(frame.best_guesses) = 2
        /\ FracLess(frame.best_guesses[1][1], frame.best_guesses[2][1])
        /\ \E g \in 0..(m_num_valid_guesses - 1) :
               /\ g \notin Selected(frame.best_guesses)
               /\ g < frame.best_guesses[2][2]
               /\ avg_solutions_per_unique_match(frame.solution_indexes, g)
                      = frame.best_guesses[2][1]

\* the positions in block of the candidates that a search at depth can
\* still use
WithinBound(block, depth) ==
    {k \in 1..Len(block) : depth + block[k].min_depth <= NUM_ALLOWED_GUESSES}

\* candidate k of block has no larger total_depth / solved_count than
\* candidate j, and a smaller one when j comes first
NoWorseThan(block, k, j) ==
    /\ block[k].total_depth * block[j].solved_count
           <= block[j].total_depth * block[k].solved_count
    /\ j < k => block[k].total_depth * block[j].solved_count
                    < block[j].total_depth * block[k].solved_count

\* C18: when a solve call has explored all its candidates, the node it puts
\* in slot 0, memoises under its solutions and returns is the candidate with
\* the least total_depth / solved_count among those with
\* depth + min_depth <= NUM_ALLOWED_GUESSES, the first of them in the block
\* when several are least, and the candidate of slot 0 when there is none;
\* a candidate whose loop a false return of traverse_match has stopped is
\* chosen only when there is none.
C18_BestWithinDepthChosen ==
    [][\A t \in DOMAIN threads :
          RankStep(t) =>
              LET frame  == Top(threads[t])
                  block  == heap[frame.subtrees]
                  within == WithinBound(block, frame.depth)
                  chosen == heap'[frame.subtrees][1]
              IN /\ m_memo'[frame.solution_indexes] = frame.subtrees
                 /\ IF Len(threads[t]) = 1
                    THEN head' = frame.subtrees
                    ELSE LET children ==
                                 NodeAt(heap', threads[t][Len(threads[t]) - 1]
                                                   .subtree).children
                         IN children[Len(children)] = frame.subtrees
                 /\ IF within = {}
                    THEN chosen = block[1]
                    ELSE \E k \in within :
                            /\ chosen = block[k]
                            /\ block[k].solved_count > 0
                            /\ \A j \in within \ {k} :
                                   NoWorseThan(block, k, j)
                 /\ chosen.stopped => within = {}]_vars

\* a memoised block of two candidates in which the candidate the ranker
\* listed second has been put into slot 0
C18_Witness ==
    \E key \in DOMAIN m_memo :
        LET block == heap[m_memo[key]]
            best_guesses == get_best_unique_match_guesses(key)
        IN /\ Len(block) = 2
           /\ Len(best_guesses) = 2
           /\ block[1].guess_index = best_guesses[2][2]
           /\ block[2].guess_index = best_guesses[1][2]

(***************************************************************************)
(* Properties of the memo lookup and of the joins.                         *)
(***************************************************************************)
\* thread t takes the first step of a solve call: the memo lookup and what
\* follows from it
EnterStep(t) ==
    /\ phase = "solving"
    /\ threads[t] # <<>>
    /\ Top(threads[t]).fn = "solve"
    /\ Top(threads[t]).pc = "enter"
    /\ t \in DOMAIN threads'
    /\ threads'[t] # threads[t]

\* the memo holds for solution_indexes a node that a search at depth can
\* use
Usable(solution_indexes, depth) ==
    /\ solution_indexes \in DOMAIN m_memo
    /\ depth + heap[m_memo[solution_indexes]][1].min_depth
           <= NUM_ALLOWED_GUESSES

\* C19: a solve call that finds in the memo a node for its solutions with
\* depth + min_depth <= NUM_ALLOWED_GUESSES returns that node: it allocates
\* no block, starts no worker, and leaves the memo, m_num_threads and every
\* node alone (the caller then adds the node to its candidate's children);
\* a call that finds no such node allocates a new block, and when it
\* returns the memo holds that block, and no other, for its solutions.
C19_MemoHitFrame ==
    [][\A t \in DOMAIN threads :
          /\ EnterStep(t) =>
                LET frame  == Top(threads[t])
                    cached == m_memo[frame.solution_indexes]
                IN IF Usable(frame.solution_indexes, frame.depth)
                   THEN /\ m_memo' = m_memo
                        /\ m_num_threads' = m_num_threads
                        /\ DOMAIN heap' = DOMAIN heap
                        /\ DOMAIN threads' = DOMAIN threads
                        /\ heap'[cached] = heap[cached]
                        /\ IF Len(threads[t]) = 1
                           THEN heap' = heap /\ head' = cached
                           ELSE LET caller ==
                                      threads[t][Len(threads[t]) - 1].subtree
                                    children ==
                                      NodeAt(heap', caller).children
                                IN /\ children[Len(children)] = cached
                                   /\ heap' = SetNode(heap, caller,
                                                      NodeAt(heap', caller))
                   ELSE /\ m_memo' = m_memo
                        /\ Top(threads'[t]).subtrees \notin DOMAIN heap
                        /\ Top(threads'[t]).subtrees \in DOMAIN heap'
          /\ RankStep(t) =>
                LET frame == Top(threads[t])
                IN /\ frame.solution_indexes \in DOMAIN m_memo =>
                          m_memo[frame.solution_indexes] # frame.subtrees
                   /\ m_memo'[frame.solution_indexes] = frame.subtrees]_vars

\* a node is the child of two nodes, and a solve call is at work on a new
\* block for solutions whose memoised node fails the bound at its depth
C19_Witness ==
    /\ \E b \in DOMAIN heap, c \in DOMAIN heap :
          \E k \in 1..Len(heap[b]), j \in 1..Len(heap[c]) :
              /\ <<b, k>> # <<c, j>>
              /\ Range(heap[b][k].children) \cap Range(heap[c][j].children)
                     # {}
    /\ \E frame \in RankedCalls :
          /\ frame.solution_indexes \in DOMAIN m_memo
          /\ m_memo[frame.solution_indexes] # frame.subtrees
          /\ ~Usable(frame.solution_indexes, frame.depth)

\* C20: a solve call picks its best candidate, swaps it into slot 0,
\* memoises it and returns only when every worker it has started has
\* finished and been joined and no traverse_matches call is at work on a
\* candidate of its block; no traverse_matches call is ever at work on a
\* block that solve has returned.
C20_JoinedBeforeRank ==
    [][/\ \A t \in DOMAIN threads :
              (/\ Running(t)
               /\ Top(threads[t]).fn = "solve"
               /\ Top(threads[t]).subtrees # NULL
               /\ Len(threads'[t]) < Len(threads[t])) =>
                  LET frame == Top(threads[t])
                  IN /\ frame.joined = Len(frame.workers)
                     /\ \A j \in 1..Len(frame.workers) :
                            threads[frame.workers[j]] = <<>>
                     /\ \A subtree \in Traversed :
                            subtree[1] # frame.subtrees
       /\ \A subtree \in Traversed : subtree[1] \notin ReturnedBlocks]_vars

\* a block that solve has returned, two of whose candidates were explored
\* by workers
C20_Witness ==
    \E b \in ReturnedBlocks : \E t \in DOMAIN threads, u \in DOMAIN threads :
        /\ t # u
        /\ t # MainThread /\ u # MainThread
        /\ SubSeq(t, 1, Len(t) - 1) = b
        /\ SubSeq(u, 1, Len(u) - 1) = b
        /\ NodeAt(heap, <<b, t[Len(t)]>>).solved_count > 0
        /\ NodeAt(heap, <<b, u[Len(u)]>>).solved_count > 0

(***************************************************************************)
(* Properties of the nodes of a tree and of its release.                   *)
(***************************************************************************)
\* C21: every node that solve has returned has solved_count >= 1 and
\* total_depth >= solved_count, and it is_leaf or has a leaves entry or has
\* a child.
C21_ReturnedNodeInvariants ==
    \A b \in ReturnedBlocks :
        LET node == heap[b][1]
        IN /\ node.solved_count >= 1
           /\ node.total_depth >= node.solved_count
           /\ \/ node.is_leaf
              \/ node.leaves # <<>>
              \/ node.children # <<>>

\* a returned node whose loop a false return of traverse_match stopped at
\* its first match value: all it has is one child
C21_Witness ==
    \E b \in ReturnedBlocks :
        LET node == heap[b][1]
        IN /\ node.stopped
           /\ ~node.is_leaf
           /\ node.leaves = <<>>
           /\ Len(node.children) = 1
           /\ node.solved_count >= 1

\* C22: every pointer in a children vector or in the memo points to a block
\* that solve has allocated, and the destruction of the result releases no
\* block twice, although the memo lets several nodes hold the same block as
\* a child.
C22_BlocksReleasedOnce ==
    /\ \A b \in DOMAIN heap : \A k \in 1..Len(heap[b]) :
           Range(heap[b][k].children) \subseteq DOMAIN heap
    /\ \A key \in DOMAIN m_memo : m_memo[key] \in DOMAIN heap
    /\ ReleasedOnce(freed)
    /\ Range(freed) \subseteq DOMAIN heap
    /\ phase # "crashed"

\* the result is destroyed, and a block it has released is the child of a
\* node of the tree and of a node that is not in the tree
C22_Witness ==
    /\ phase = "destroyed"
    /\ \E b \in Range(freed), c \in Range(freed), d \in DOMAIN heap :
          \E k \in 1..Len(heap[d]) :
              /\ d \notin Range(freed) \/ k > 1
              /\ b \in Range(heap[c][1].children)
              /\ b \in Range(heap[d][k].children)

====
